---- MODULE Spec2Model ----
(***************************************************************************)
(* Model of the memory compaction engine of the mobyclaw dashboard server  *)
(* (src/dashboard/server.py): the section parser, the token estimator, the *)
(* relevance scorer, the budget packer (get_optimized_context) and the     *)
(* archival compactor (compress_memory), together with the HTTP handler    *)
(* that runs them against the files MEMORY.md and memory/archives/*.       *)
(*                                                                         *)
(* A text is a sequence of one-character strings, so that lengths, slices, *)
(* substring tests and regular-expression matches are those of the code.   *)
(***************************************************************************)
EXTENDS Integers, Sequences, FiniteSets, TLC

(***************************************************************************)
(* Bounds of the model.                                                    *)
(***************************************************************************)
MaxSections == 4    \* blocks in a packer input document
MaxBlocks == 2      \* blocks in a compactor input document
MaxBudget == 5      \* largest budget query parameter
NReqs == 2          \* client requests that may be pending at once
MaxPosts == 1       \* POST /api/memory replacements in one run
NDates == 2         \* UTC dates the wall clock runs through
MaxTerms == 13      \* entries in a query-term list given to score_section
MaxLen == 9         \* characters in a text given to estimate_tokens
MaxParseBlocks == 3  \* blocks in a document given to parse_memory_sections
NTasks == 1          \* rows of the tasks table
MaxRetries == 2      \* the largest max_retries of a task

(***************************************************************************)
(* Program constants.                                                      *)
(***************************************************************************)
DEFAULT_CONTEXT_BUDGET == 1500
BODY_PENALTY_LEN == 2000
DATE_WINDOW == 200
ORDER_DEFAULT == 999
INNER_OVERHEAD == 10

(***************************************************************************)
(* Characters and text primitives (Python str operations).                 *)
(***************************************************************************)
NL == "\n"
UpperChars == <<"A","B","C","D","E","F","G","H","I","J","K","L","M",
                "N","O","P","Q","R","S","T","U","V","W","X","Y","Z">>
LowerChars == <<"a","b","c","d","e","f","g","h","i","j","k","l","m",
                "n","o","p","q","r","s","t","u","v","w","x","y","z">>
DigitChars == <<"0","1","2","3","4","5","6","7","8","9">>
UpperSet == {UpperChars[i] : i \in DOMAIN UpperChars}
LowerSet == {LowerChars[i] : i \in DOMAIN LowerChars}
DigitSet == {DigitChars[i] : i \in DOMAIN DigitChars}
LowerMap == [c \in UpperSet |-> LowerChars[CHOOSE i \in DOMAIN UpperChars : UpperChars[i] = c]]

\* str.lower() on one character
LowerChar(c) == IF c \in UpperSet THEN LowerMap[c] ELSE c

\* str.lower()
lower(s) == [i \in 1..Len(s) |-> LowerChar(s[i])]

\* whitespace as str.strip() sees it
IsSpace(c) == c \in {" ", "\n", "\t", "\r"}

\* \w and \d of the re module (ASCII)
IsWordChar(c) == c \in UpperSet \cup LowerSet \cup DigitSet \cup {"_"}
IsDigit(c) == c \in DigitSet

Min(S) == CHOOSE x \in S : \A y \in S : x <= y
Max(S) == CHOOSE x \in S : \A y \in S : y <= x

\* s[i-1:].startswith(t), with i a 1-based position
StartsWithAt(s, i, t) == /\ i + Len(t) - 1 <= Len(s)
                         /\ SubSeq(s, i, i + Len(t) - 1) = t

\* s.startswith(t)
startswith(s, t) == StartsWithAt(s, 1, t)

\* t in s
Contains(s, t) == \E i \in 1..(Len(s) - Len(t) + 1) : SubSeq(s, i, i + Len(t) - 1) = t

\* s.find(t, i-1) + 1: the first position >= i where t starts, 0 when none
find(s, t, i) == LET hits == {j \in i..(Len(s) - Len(t) + 1) : SubSeq(s, j, j + Len(t) - 1) = t}
                 IN  IF hits = {} THEN 0 ELSE Min(hits)

\* s.strip()
strip(s) == LET inked == {j \in 1..Len(s) : ~IsSpace(s[j])}
            IN  IF inked = {} THEN <<>> ELSE SubSeq(s, Min(inked), Max(inked))

\* s.split("\n")
RECURSIVE SplitFrom(_, _)
SplitFrom(s, i) == LET j == find(s, <<NL>>, i)
                   IN  IF j = 0 THEN <<SubSeq(s, i, Len(s))>>
                       ELSE <<SubSeq(s, i, j - 1)>> \o SplitFrom(s, j + 1)
split_lines(s) == SplitFrom(s, 1)

\* sep.join(parts)
RECURSIVE JoinFrom(_, _, _)
JoinFrom(parts, sep, i) == IF i > Len(parts) THEN <<>>
                           ELSE IF i = Len(parts) THEN parts[i]
                           ELSE parts[i] \o sep \o JoinFrom(parts, sep, i + 1)
join(parts, sep) == JoinFrom(parts, sep, 1)

\* concatenation of a sequence of texts
Concat(parts) == join(parts, <<>>)

\* s[:n]
Prefix(s, n) == SubSeq(s, 1, IF n < Len(s) THEN n ELSE Len(s))

\* code point order of the characters a date holds
CharCode(c) == IF c = "-" THEN 0
               ELSE CHOOSE i \in DOMAIN DigitChars : DigitChars[i] = c

\* a < b for str (lexicographic)
RECURSIVE StrLessFrom(_, _, _)
StrLessFrom(a, b, i) == IF i > Len(a) THEN i <= Len(b)
                        ELSE IF i > Len(b) THEN FALSE
                        ELSE IF a[i] = b[i] THEN StrLessFrom(a, b, i + 1)
                        ELSE CharCode(a[i]) < CharCode(b[i])
StrLess(a, b) == StrLessFrom(a, b, 1)

\* sorted(seq, key=keys), stable and ascending
Place(sorted, p) == LET later == {i \in 1..Len(sorted) : sorted[i].k > p.k}
                    IN  IF later = {} THEN Append(sorted, p)
                        ELSE LET j == CHOOSE i \in later : \A m \in later : i <= m
                             IN  SubSeq(sorted, 1, j - 1) \o <<p>> \o SubSeq(sorted, j, Len(sorted))
RECURSIVE SortKeyed(_, _, _)
SortKeyed(pairs, i, acc) == IF i > Len(pairs) THEN acc
                            ELSE SortKeyed(pairs, i + 1, Place(acc, pairs[i]))
StableSort(seq, keys) == LET pairs == [i \in 1..Len(seq) |-> [k |-> keys[i], v |-> seq[i]]]
                             res == SortKeyed(pairs, 1, <<>>)
                         IN  [i \in 1..Len(seq) |-> res[i].v]

(***************************************************************************)
(* Literals of the source.                                                 *)
(***************************************************************************)
H2 == <<"#","#"," ">>
NLH2 == <<"\n","#","#"," ">>
kw_identity == <<"i","d","e","n","t","i","t","y">>
kw_user == <<"u","s","e","r">>
kw_preferences == <<"p","r","e","f","e","r","e","n","c","e","s">>
always_include == <<kw_identity, kw_user, kw_preferences>>
kw_in_progress == <<"i","n"," ","p","r","o","g","r","e","s","s">>
kw_status_todo == <<"s","t","a","t","u","s",":","*","*"," ","t","o","d","o">>
kw_status_planned == <<"s","t","a","t","u","s",":","*","*"," ","p","l","a","n","n","e","d">>
kw_status_done == <<"s","t","a","t","u","s",":","*","*"," ","d","o","n","e">>
kw_status_cancelled == <<"s","t","a","t","u","s",":","*","*"," ","c","a","n","c","e","l","l","e","d">>
kw_active_task == <<"a","c","t","i","v","e"," ","t","a","s","k">>
kw_sprint == <<"s","p","r","i","n","t">>
kw_planned == <<"p","l","a","n","n","e","d">>
kw_projects == <<"p","r","o","j","e","c","t","s">>
kw_research == <<"r","e","s","e","a","r","c","h">>
kw_feature == <<"f","e","a","t","u","r","e">>
kw_ideas == <<"i","d","e","a","s">>
pat_head == <<"#","#"," ","A","c","t","i","v","e"," ","T","a","s","k"," ","(">>
pat_status == <<")","\n","*","*","S","t","a","t","u","s",":","*","*"," ">>
pat_done == <<"D","O","N","E">>
pat_cancelled == <<"C","A","N","C","E","L","L","E","D">>
inner_title == <<"#","#"," ","I","n","n","e","r"," ","S","t","a","t","e"," ",
                 "(","r","i","g","h","t"," ","n","o","w",")","\n">>
lbl_mood == <<"M","o","o","d",":"," ">>
lbl_energy == <<"E","n","e","r","g","y",":"," ">>

(***************************************************************************)
(* parse_memory_sections: one section per line that starts with "## ".     *)
(***************************************************************************)
\* a section whose body keeps its leading and trailing blank space
SectionUntrimmed(header, body_lines) == [header |-> header, body |-> join(body_lines, <<NL>>)]

Section(header, body_lines) == [header |-> header, body |-> strip(join(body_lines, <<NL>>))]

RECURSIVE ParseLines(_, _, _, _, _, _)
ParseLines(lines, i, has_header, current_header, current_body, sections) ==
    IF i > Len(lines)
    THEN IF has_header THEN Append(sections, Section(current_header, current_body))
         ELSE sections
    ELSE IF startswith(lines[i], H2)
    THEN ParseLines(lines, i + 1, TRUE, strip(SubSeq(lines[i], 4, Len(lines[i]))), <<>>,
                    IF has_header THEN Append(sections, Section(current_header, current_body))
                    ELSE sections)
    ELSE IF has_header
    THEN ParseLines(lines, i + 1, TRUE, current_header, Append(current_body, lines[i]), sections)
    ELSE ParseLines(lines, i + 1, FALSE, current_header, current_body, sections)

parse_memory_sections(content) == ParseLines(split_lines(content), 1, FALSE, <<>>, <<>>, <<>>)

(***************************************************************************)
(* estimate_tokens                                                         *)
(***************************************************************************)
\* the estimate rounded to the nearest token
estimate_tokens_rounded(text) == (Len(text) + 2) \div 4

estimate_tokens(text) == Len(text) \div 4

(***************************************************************************)
(* score_section                                                           *)
(***************************************************************************)
\* re.match(r'\d{4}-\d{2}-\d{2}', s[i-1:])
DateAt(s, i) == /\ i + 9 <= Len(s)
                /\ \A k \in {0, 1, 2, 3, 5, 6, 8, 9} : IsDigit(s[i + k])
                /\ s[i + 4] = "-"
                /\ s[i + 7] = "-"

\* re.findall(r'(\d{4}-\d{2}-\d{2})', s): leftmost matches that do not overlap
RECURSIVE FindDates(_, _)
FindDates(s, i) == LET hits == {j \in i..(Len(s) - 9) : DateAt(s, j)}
                   IN  IF hits = {} THEN <<>>
                       ELSE <<SubSeq(s, Min(hits), Min(hits) + 9)>> \o FindDates(s, Min(hits) + 10)

\* max(date_matches)
MaxStr(strs) == CHOOSE a \in {strs[i] : i \in DOMAIN strs} :
                    \A i \in DOMAIN strs : ~StrLess(a, strs[i])

IsAlwaysInclude(header) == \E k \in DOMAIN always_include : Contains(lower(header), always_include[k])

StatusScore(body) == IF Contains(body, kw_in_progress) THEN 200
                     ELSE IF Contains(body, kw_status_todo) \/ Contains(body, kw_status_planned) THEN 100
                     ELSE IF Contains(body, kw_status_done) THEN 10
                     ELSE IF Contains(body, kw_status_cancelled) THEN 5
                     ELSE 0

\* the type rules as a continuation of the status chain: they apply only when
\* no status rule did
TypeScoreFlat(header, body) ==
    IF StatusScore(body) # 0 THEN 0
    ELSE IF Contains(header, kw_active_task) THEN 20
    ELSE IF Contains(header, kw_sprint) \/ Contains(header, kw_planned) THEN 80
    ELSE IF Contains(header, kw_projects) THEN 90
    ELSE IF Contains(header, kw_research) THEN 30
    ELSE IF Contains(header, kw_feature) \/ Contains(header, kw_ideas) THEN 25
    ELSE 0

TypeScore(header, body) == IF Contains(header, kw_active_task)
                           THEN (IF Contains(body, kw_in_progress) THEN 300 ELSE 20)
                           ELSE IF Contains(header, kw_sprint) \/ Contains(header, kw_planned) THEN 80
                           ELSE IF Contains(header, kw_projects) THEN 90
                           ELSE IF Contains(header, kw_research) THEN 30
                           ELSE IF Contains(header, kw_feature) \/ Contains(header, kw_ideas) THEN 25
                           ELSE 0

\* now_str is the reference timestamp of the call, wall the date the wall clock
\* shows when the section is scored (the second comparison reads the clock again)
RecencyScore(section, now_str, wall) ==
    LET date_matches == FindDates(lower(section.header) \o <<" ">> \o Prefix(section.body, DATE_WINDOW), 1)
    IN  IF date_matches = <<>> THEN 0
        ELSE LET latest == MaxStr(date_matches)
                 today == Prefix(now_str, 10)
             IN  IF latest = today THEN 50
                 ELSE IF ~StrLess(latest, wall) THEN 30
                 ELSE 0

\* the overlap counted over the distinct terms of the list
QueryScoreDistinct(full, query_words) ==
    40 * Cardinality({query_words[i] : i \in {j \in DOMAIN query_words : Contains(full, query_words[j])}})

QueryScore(full, query_words) ==
    40 * Cardinality({i \in DOMAIN query_words : Contains(full, query_words[i])})

SizePenalty(section) == IF Len(section.body) > BODY_PENALTY_LEN THEN 10 ELSE 0

score_section(section, query_words, now_str, wall) ==
    LET header == lower(section.header)
        body == lower(section.body)
        full == header \o <<" ">> \o body
    IN  IF IsAlwaysInclude(section.header) THEN 1000
        ELSE StatusScore(body) + TypeScore(header, body)
             + RecencyScore(section, now_str, wall)
             + QueryScore(full, query_words)
             - SizePenalty(section)

(***************************************************************************)
(* get_inner_context: the inner-state summary injected into every context. *)
(* The state file holds a mood (absent, or its primary name) and an energy *)
(* figure; the optional lists (preoccupations, curiosity, events) are      *)
(* empty.                                                                  *)
(***************************************************************************)
get_inner_context(state) ==
    LET mood_part == IF state.has_mood THEN <<lbl_mood \o state.mood>> ELSE <<>>
        parts == mood_part \o <<lbl_energy \o state.energy>>
    IN  join(parts, <<NL>>)

(***************************************************************************)
(* get_optimized_context, its pure part (lines 836-898).                   *)
(***************************************************************************)
\* re.split(r'\W+', query): the maximal runs of word characters
RECURSIVE SplitWords(_, _)
SplitWords(s, i) == LET starts == {j \in i..Len(s) : IsWordChar(s[j])}
                    IN  IF starts = {} THEN <<>>
                        ELSE LET a == Min(starts)
                                 stops == {j \in a..Len(s) : ~IsWordChar(s[j])}
                                 b == IF stops = {} THEN Len(s) + 1 ELSE Min(stops)
                             IN  <<SubSeq(s, a, b - 1)>> \o SplitWords(s, b)

LongWord(w) == Len(w) > 2

\* [w.lower() for w in re.split(r'\W+', query) if len(w) > 2], [] for no query
QueryWords(query) == IF query = <<>> THEN <<>>
                     ELSE LET ws == SelectSeq(SplitWords(query, 1), LongWord)
                          IN  [i \in 1..Len(ws) |-> lower(ws[i])]

\* budget_tokens or DEFAULT_CONTEXT_BUDGET
EffectiveBudget(budget_tokens) == IF budget_tokens = 0 THEN DEFAULT_CONTEXT_BUDGET ELSE budget_tokens

\* f"## {s['header']}\n{s['body']}"
SectionText(s) == H2 \o s.header \o <<NL>> \o s.body

ScoreAll(sections, query_words, now_str, wall) ==
    [i \in 1..Len(sections) |->
        [header |-> sections[i].header, body |-> sections[i].body,
         score |-> score_section(sections[i], query_words, now_str, wall)]]

\* the ranking by an ascending sort read backwards: sections of equal score
\* come out in the reverse of their document order
SortByScoreBackwards(scored) ==
    LET up == StableSort(scored, [i \in 1..Len(scored) |-> scored[i].score])
    IN  [i \in 1..Len(up) |-> up[Len(up) + 1 - i]]

\* scored.sort(key=lambda x: x["score"], reverse=True)
SortByScore(scored) == StableSort(scored, [i \in 1..Len(scored) |-> 0 - scored[i].score])

\* the packing loop
RECURSIVE PackFrom(_, _, _, _, _)
RECURSIVE PackStrictFrom(_, _, _, _, _)
RECURSIVE PackInvertedFrom(_, _, _, _, _)
RECURSIVE PackRunningFrom(_, _, _, _, _)
RECURSIVE PackStopFrom(_, _, _, _, _)

\* the loop testing the running total alone: a section is taken while the
\* total so far is within the budget
PackRunningFrom(scored, i, budget, included, total_tokens) ==
    IF i > Len(scored) THEN [included |-> included, total_tokens |-> total_tokens]
    ELSE LET section_tokens == estimate_tokens(H2 \o scored[i].header \o <<NL>> \o scored[i].body)
         IN  IF total_tokens > budget /\ included # <<>>
             THEN PackRunningFrom(scored, i + 1, budget, included, total_tokens)
             ELSE PackRunningFrom(scored, i + 1, budget, Append(included, scored[i]),
                                  total_tokens + section_tokens)
PackRunning(scored, budget) == PackRunningFrom(scored, 1, budget, <<>>, 0)

\* the loop with break for continue: it stops at the first section that does
\* not fit
PackStopFrom(scored, i, budget, included, total_tokens) ==
    IF i > Len(scored) THEN [included |-> included, total_tokens |-> total_tokens]
    ELSE LET section_tokens == estimate_tokens(H2 \o scored[i].header \o <<NL>> \o scored[i].body)
         IN  IF total_tokens + section_tokens > budget /\ included # <<>>
             THEN [included |-> included, total_tokens |-> total_tokens]
             ELSE PackStopFrom(scored, i + 1, budget, Append(included, scored[i]),
                               total_tokens + section_tokens)
PackStop(scored, budget) == PackStopFrom(scored, 1, budget, <<>>, 0)

\* the loop without its "and included": a first section over budget is skipped
PackStrictFrom(scored, i, budget, included, total_tokens) ==
    IF i > Len(scored) THEN [included |-> included, total_tokens |-> total_tokens]
    ELSE LET section_tokens == estimate_tokens(H2 \o scored[i].header \o <<NL>> \o scored[i].body)
         IN  IF total_tokens + section_tokens > budget
             THEN PackStrictFrom(scored, i + 1, budget, included, total_tokens)
             ELSE PackStrictFrom(scored, i + 1, budget, Append(included, scored[i]),
                                 total_tokens + section_tokens)
PackStrict(scored, budget) == PackStrictFrom(scored, 1, budget, <<>>, 0)

\* the loop with its comparison turned round: what fits is skipped
PackInvertedFrom(scored, i, budget, included, total_tokens) ==
    IF i > Len(scored) THEN [included |-> included, total_tokens |-> total_tokens]
    ELSE LET section_tokens == estimate_tokens(H2 \o scored[i].header \o <<NL>> \o scored[i].body)
         IN  IF total_tokens + section_tokens < budget /\ included # <<>>
             THEN PackInvertedFrom(scored, i + 1, budget, included, total_tokens)
             ELSE PackInvertedFrom(scored, i + 1, budget, Append(included, scored[i]),
                                   total_tokens + section_tokens)
PackInverted(scored, budget) == PackInvertedFrom(scored, 1, budget, <<>>, 0)

PackFrom(scored, i, budget, included, total_tokens) ==
    IF i > Len(scored) THEN [included |-> included, total_tokens |-> total_tokens]
    ELSE LET section_tokens == estimate_tokens(SectionText(scored[i]))
         IN  IF total_tokens + section_tokens > budget /\ included # <<>>
             THEN PackFrom(scored, i + 1, budget, included, total_tokens)
             ELSE PackFrom(scored, i + 1, budget, Append(included, scored[i]),
                           total_tokens + section_tokens)
Pack(scored, budget) == PackFrom(scored, 1, budget, <<>>, 0)

\* section_order.get(header, 999), section_order = {s["header"]: i for i, s in enumerate(sections)}
section_order(sections, header) ==
    LET at == {i \in 1..Len(sections) : sections[i].header = header}
    IN  IF at = {} THEN ORDER_DEFAULT
        ELSE (CHOOSE i \in at : \A j \in at : j <= i) - 1

\* included.sort(key=lambda x: section_order.get(x["header"], 999))
Reorder(included, sections) ==
    StableSort(included, [i \in 1..Len(included) |-> section_order(sections, included[i].header)])

BuildContext(included) == join([i \in 1..Len(included) |-> SectionText(included[i])], <<NL, NL>>)

\* an empty result that still carries the title of the Inner State block
EmptyResultTitled(budget) ==
    [sections |-> <<>>, total_tokens |-> 0, budget_tokens |-> budget,
     sections_included |-> 0, sections_total |-> 0, sections_pruned |-> 0,
     context |-> inner_title]

EmptyResult(budget) ==
    [sections |-> <<>>, total_tokens |-> 0, budget_tokens |-> budget,
     sections_included |-> 0, sections_total |-> 0, sections_pruned |-> 0,
     context |-> <<>>]

\* the returned dict with the inner-state text counted by its estimate alone
BuildResultBare(sections, included, packed_tokens, budget, inner_context) ==
    [sections |-> [i \in 1..Len(included) |->
                      [header |-> included[i].header, score |-> included[i].score,
                       tokens |-> estimate_tokens(SectionText(included[i]))]],
     total_tokens |-> packed_tokens + estimate_tokens(inner_context),
     budget_tokens |-> budget,
     sections_included |-> Len(included),
     sections_total |-> Len(sections),
     sections_pruned |-> Len(sections) - Len(included),
     context |-> IF inner_context # <<>>
                 THEN inner_title \o inner_context \o <<NL, NL>> \o BuildContext(included)
                 ELSE BuildContext(included)]

\* the returned dict (lines 883-898)
BuildResult(sections, included, packed_tokens, budget, inner_context) ==
    [sections |-> [i \in 1..Len(included) |->
                      [header |-> included[i].header, score |-> included[i].score,
                       tokens |-> estimate_tokens(SectionText(included[i]))]],
     total_tokens |-> IF inner_context # <<>>
                      THEN packed_tokens + estimate_tokens(inner_context) + INNER_OVERHEAD
                      ELSE packed_tokens,
     budget_tokens |-> budget,
     sections_included |-> Len(included),
     sections_total |-> Len(sections),
     sections_pruned |-> Len(sections) - Len(included),
     context |-> IF inner_context # <<>>
                 THEN inner_title \o inner_context \o <<NL, NL>> \o BuildContext(included)
                 ELSE BuildContext(included)]

(***************************************************************************)
(* compress_memory, its pure part (lines 587-606).                         *)
(***************************************************************************)
\* the end (exclusive) of the match of
\*   (## Active Task \([^)]+\)\n\*\*Status:\*\* (?:DONE|CANCELLED)\n.*?)(?=\n## |\Z)
\* that starts at position i, with re.DOTALL; 0 when there is none
MatchEnd(content, i) ==
    IF ~StartsWithAt(content, i, pat_head) THEN 0
    ELSE LET j0 == i + Len(pat_head)
             p == find(content, <<")">>, j0)
         IN  IF p = 0 \/ p = j0 \/ ~StartsWithAt(content, p, pat_status) THEN 0
             ELSE LET q == p + Len(pat_status)
                      r == IF StartsWithAt(content, q, pat_done) THEN q + Len(pat_done)
                           ELSE IF StartsWithAt(content, q, pat_cancelled) THEN q + Len(pat_cancelled)
                           ELSE 0
                  IN  IF r = 0 \/ ~StartsWithAt(content, r, <<NL>>) THEN 0
                      ELSE LET h == find(content, NLH2, r + 1)
                           IN  IF h = 0 THEN Len(content) + 1 ELSE h

\* list(re.finditer(pattern, content, re.DOTALL)): leftmost matches, in order
RECURSIVE FindMatches(_, _)
FindMatches(content, i) ==
    LET s == find(content, pat_head, i)
    IN  IF s = 0 THEN <<>>
        ELSE LET e == MatchEnd(content, s)
             IN  IF e = 0 THEN FindMatches(content, s + 1)
                 ELSE <<[start |-> s, end |-> e]>> \o FindMatches(content, e)

\* m.group(0)
Group(content, m) == SubSeq(content, m.start, m.end - 1)

\* archived_content += m.group(0).strip() + "\n\n", over the matches
ArchivedContent(content, matches) ==
    Concat([i \in 1..Len(matches) |-> strip(Group(content, matches[i])) \o <<NL, NL>>])

\* for m in reversed(matches): new_content = new_content[:m.start()] + new_content[m.end():]
RECURSIVE RemoveMatches(_, _, _)
RemoveMatches(new_content, matches, i) ==
    IF i < 1 THEN new_content
    ELSE RemoveMatches(SubSeq(new_content, 1, matches[i].start - 1)
                         \o SubSeq(new_content, matches[i].end, Len(new_content)),
                       matches, i - 1)

\* re.sub(r'\n{3,}', '\n\n', s): each maximal run of three or more newlines
\* becomes two
RECURSIVE CollapseFrom(_, _)
CollapseFrom(s, i) ==
    LET a == find(s, <<NL>>, i)
    IN  IF a = 0 THEN SubSeq(s, i, Len(s))
        ELSE LET stops == {j \in a..Len(s) : s[j] # NL}
                 b == IF stops = {} THEN Len(s) + 1 ELSE Min(stops)
             IN  SubSeq(s, i, a - 1)
                 \o (IF b - a >= 3 THEN <<NL, NL>> ELSE SubSeq(s, a, b - 1))
                 \o CollapseFrom(s, b)
CollapseNewlines(s) == CollapseFrom(s, 1)

NewContent(content, matches) == CollapseNewlines(RemoveMatches(content, matches, Len(matches)))

(***************************************************************************)
(* The files, the wall clock and the request handler.                      *)
(***************************************************************************)
VARIABLES
    live,          \* MEMORY.md
    archives,      \* memory/archives/<date>-tasks.md, by date
    clock,         \* the UTC date the wall clock shows
    inner_state,   \* state/inner.json
    pc,            \* where each client's request stands
    loc,           \* the local variables of the call serving each request
    posts,         \* POST /api/memory requests served so far
    runs,          \* compress_memory calls completed since MEMORY.md was last
                   \* replaced or a call failed (2 stands for two or more)
    tasks,         \* the tasks table, by task id
    task_history,  \* the 'retry' rows of the task_history table, oldest first
    auto           \* the auto-retry thread: where it stands, and its locals

vars == <<live, archives, clock, inner_state, pc, loc, posts, runs, tasks, task_history, auto>>

Reqs == 1..NReqs
Dates == 1..NDates
Budgets == 0..MaxBudget

NoFile == [exists |-> FALSE, data |-> <<>>]
File(data) == [exists |-> TRUE, data |-> data]

\* datetime.now(timezone.utc).strftime("%Y-%m-%d") on the d-th date
DateStr(d) == <<"2","0","2","6","-","0","1","-","0", DigitChars[d + 1]>>

\* datetime.now(timezone.utc).isoformat() on the d-th date
IsoNow(d) == DateStr(d) \o <<"T","0","9",":","3","0",":","0","0","+","0","0",":","0","0">>

\* no row: what fetchone() returns for an id the table does not hold
NoTask == [status |-> "none", retry_count |-> 0, max_retries |-> 0]

\* the tables after init_db on a fresh database
NoTasks == [id \in {} |-> NoTask]

NoLocals ==
    [op |-> "none", query |-> <<>>, budget_tokens |-> 0, body |-> <<>>,
     content |-> <<>>, matches |-> <<>>, today |-> 0, archived_content |-> <<>>,
     new_content |-> <<>>, archived |-> 0,
     sections |-> <<>>, scored |-> <<>>, included |-> <<>>, result |-> EmptyResult(0),
     section |-> [header |-> <<>>, body |-> <<>>], query_words |-> <<>>, now_str |-> <<>>,
     wall |-> 0, score |-> 0, text |-> <<>>, tokens |-> 0,
     task_id |-> 0, task |-> NoTask, failed |-> <<>>, retried |-> <<>>, result_task |-> NoTask]

\* the auto-retry thread in time.sleep(AUTO_RETRY_INTERVAL)
Asleep == [pc |-> "sleep", loc |-> NoLocals]

(***************************************************************************)
(* Input documents: concatenations of blocks.                              *)
(***************************************************************************)
\* "## User\nuu\n", "## Identity\n", "## a\n", "## b\n2026-01-02\n"
PackerBlocks ==
    << <<"#","#"," ","U","s","e","r","\n","u","u","\n">>,
       <<"#","#"," ","I","d","e","n","t","i","t","y","\n">>,
       <<"#","#"," ","a","\n">>,
       <<"#","#"," ","b","\n","2","0","2","6","-","0","1","-","0","2","\n">> >>

\* a finished task with a body, a cancelled task with none, a task in progress,
\* notes with a run of blank lines, and a finished task whose status line runs
\* on into the heading of another finished task
CompactorBlocks ==
    << <<"#","#"," ","A","c","t","i","v","e"," ","T","a","s","k"," ","(","a",")","\n",
         "*","*","S","t","a","t","u","s",":","*","*"," ","D","O","N","E","\n","x","\n">>,
       <<"#","#"," ","A","c","t","i","v","e"," ","T","a","s","k"," ","(","b",")","\n",
         "*","*","S","t","a","t","u","s",":","*","*"," ","C","A","N","C","E","L","L","E","D","\n">>,
       <<"#","#"," ","A","c","t","i","v","e"," ","T","a","s","k"," ","(","c",")","\n",
         "*","*","S","t","a","t","u","s",":","*","*"," ","I","N"," ","P","R","O","G","R","E","S","S","\n">>,
       <<"#","#"," ","N","o","t","e","s","\n","k","\n","\n","\n","\n","z","\n">>,
       <<"#","#"," ","A","c","t","i","v","e"," ","T","a","s","k"," ","(","d",")","\n",
         "*","*","S","t","a","t","u","s",":","*","*"," ","D","O","N","E",
         "#","#"," ","A","c","t","i","v","e"," ","T","a","s","k"," ","(","a",")","\n",
         "*","*","S","t","a","t","u","s",":","*","*"," ","D","O","N","E","\n","x","\n">> >>

\* the documents of at most n blocks
Docs(blocks, n) ==
    UNION {{Concat([i \in 1..k |-> blocks[f[i]]]) : f \in [1..k -> DOMAIN blocks]} : k \in 0..n}

PackerDocs == Docs(PackerBlocks, MaxSections)
CompactorDocs == Docs(CompactorBlocks, MaxBlocks)
\* the bodies POST /api/memory is sent: one finished task, one cancelled task
PostDocs == {CompactorBlocks[1], CompactorBlocks[2]}

\* "", "a 2026-01-02"
Queries == {<<>>, <<"a"," ","2","0","2","6","-","0","1","-","0","2">>}

\* what read_inner_state returns when state/inner.json is absent
DefaultInnerState ==
    [has_mood |-> TRUE, mood |-> <<"n","e","u","t","r","a","l">>, energy |-> <<"0",".","5">>]

Init ==
    /\ live \in {NoFile} \cup {File(d) : d \in CompactorDocs}
    /\ archives = [d \in Dates |-> NoFile]
    /\ clock = 1
    /\ inner_state = DefaultInnerState
    /\ pc = [r \in Reqs |-> "idle"]
    /\ loc = [r \in Reqs |-> NoLocals]
    /\ posts = 0
    /\ runs = 0
    /\ tasks = NoTasks
    /\ task_history = <<>>
    /\ auto = Asleep

InitCtx ==
    /\ live \in {NoFile} \cup {File(d) : d \in PackerDocs}
    /\ archives = [d \in Dates |-> NoFile]
    /\ clock = 1
    /\ inner_state = DefaultInnerState
    /\ pc = [r \in Reqs |-> "idle"]
    /\ loc = [r \in Reqs |-> NoLocals]
    /\ posts = 0
    /\ runs = 0
    /\ tasks = NoTasks
    /\ task_history = <<>>
    /\ auto = Asleep

(***************************************************************************)
(* http.server.HTTPServer serves one request at a time: the next request   *)
(* is taken up when the handler of the previous one has returned.          *)
(***************************************************************************)
\* a threading server: a request is taken up whatever the others are doing
CanDispatchThreaded == TRUE

CanDispatch == \A r \in Reqs : pc[r] = "idle"

\* a request is served by the first handler that is free
Free(r) == /\ pc[r] = "idle"
           /\ \A x \in Reqs : x < r => pc[x] # "idle"

Goto(r, label, locals) == /\ pc' = [pc EXCEPT ![r] = label]
                          /\ loc' = [loc EXCEPT ![r] = locals]

\* open(path, "w"); f.write(data)
OverwriteFile(file, data) == [exists |-> TRUE, data |-> data]

\* open(path, "a"); f.write(data)
AppendToFile(file, data) == File(file.data \o data)

(***************************************************************************)
(* POST /api/memory/compress: compress_memory (lines 575-611).             *)
(***************************************************************************)
ReqCompress(r) ==
    /\ CanDispatch
    /\ Free(r)
    /\ Goto(r, "c_exists", [NoLocals EXCEPT !.op = "compress"])
    /\ UNCHANGED <<live, archives, clock, inner_state, posts, runs, tasks, task_history, auto>>

\* lines 579-582
CompressExists(r) ==
    /\ pc[r] = "c_exists"
    /\ IF live.exists
       THEN /\ Goto(r, "c_read", loc[r])
            /\ UNCHANGED runs
       ELSE /\ Goto(r, "respond", loc[r])
            /\ runs' = IF runs < 2 THEN runs + 1 ELSE 2
    /\ UNCHANGED <<live, archives, clock, inner_state, posts, tasks, task_history, auto>>

\* lines 584-597
CompressRead(r) ==
    /\ pc[r] = "c_read"
    /\ LET content == live.data
           matches == FindMatches(content, 1)
       IN  IF matches = <<>>
           THEN /\ Goto(r, "respond", [loc[r] EXCEPT !.content = content])
                /\ runs' = IF runs < 2 THEN runs + 1 ELSE 2
           ELSE /\ Goto(r, "c_append",
                        [loc[r] EXCEPT !.content = content, !.matches = matches,
                                       !.today = clock,
                                       !.archived_content = ArchivedContent(content, matches)])
                /\ UNCHANGED runs
    /\ UNCHANGED <<live, archives, clock, inner_state, posts, tasks, task_history, auto>>

\* the steps in the other order: the live document is rewritten first, and
\* the spans are not yet in the archive
CompressRemoveFirst(r) ==
    /\ pc[r] = "c_append"
    /\ live' = File(NewContent(loc[r].content, loc[r].matches))
    /\ Goto(r, "c_open", [loc[r] EXCEPT !.new_content = NewContent(loc[r].content, loc[r].matches)])
    /\ UNCHANGED <<archives, clock, inner_state, posts, runs, tasks, task_history, auto>>

\* lines 599-606
CompressAppend(r) ==
    /\ pc[r] = "c_append"
    /\ archives' = [archives EXCEPT ![loc[r].today] = AppendToFile(@, loc[r].archived_content)]
    /\ Goto(r, "c_open", [loc[r] EXCEPT !.new_content = NewContent(loc[r].content, loc[r].matches)])
    /\ UNCHANGED <<live, clock, inner_state, posts, runs, tasks, task_history, auto>>

\* the append raises OSError: the call ends with nothing written
CompressAppendFail(r) ==
    /\ pc[r] = "c_append"
    /\ Goto(r, "failed", loc[r])
    /\ runs' = 0
    /\ UNCHANGED <<live, archives, clock, inner_state, posts, tasks, task_history, auto>>

\* line 608: open(memory_path, "w") truncates the file
CompressOpen(r) ==
    /\ pc[r] = "c_open"
    /\ live' = File(<<>>)
    /\ Goto(r, "c_write", loc[r])
    /\ UNCHANGED <<archives, clock, inner_state, posts, runs, tasks, task_history, auto>>

\* line 608 raises OSError, or the process stops between lines 600 and 608:
\* the archive holds the spans and the document is as it was read.  Of the
\* failures at this point the model keeps the one of the first archiving
\* call: on the first date, before any POST, with nothing in the archive yet
CompressOpenFail(r) ==
    /\ pc[r] = "c_open"
    /\ clock = 1
    /\ posts = 0
    /\ archives[loc[r].today].data = loc[r].archived_content
    /\ Goto(r, "failed", loc[r])
    /\ runs' = 0
    /\ UNCHANGED <<live, archives, clock, inner_state, posts, tasks, task_history, auto>>

\* lines 609-611: the content is written out and the file closed
CompressWrite(r) ==
    /\ pc[r] = "c_write"
    /\ live' = File(loc[r].new_content)
    /\ Goto(r, "respond", [loc[r] EXCEPT !.archived = Len(loc[r].matches)])
    /\ runs' = IF runs < 2 THEN runs + 1 ELSE 2
    /\ UNCHANGED <<archives, clock, inner_state, posts, tasks, task_history, auto>>

\* the write raises OSError after k characters reached the file; of the
\* prefixes a failure can leave, the model keeps the empty one and the half
CompressWriteFail(r, k) ==
    /\ pc[r] = "c_write"
    /\ k < Len(loc[r].new_content)
    /\ live' = File(Prefix(loc[r].new_content, k))
    /\ Goto(r, "failed", loc[r])
    /\ runs' = 0
    /\ UNCHANGED <<archives, clock, inner_state, posts, tasks, task_history, auto>>

(***************************************************************************)
(* POST /api/memory: do_POST (lines 1210-1214).                            *)
(***************************************************************************)
ReqPostMemory(r, body) ==
    /\ CanDispatch
    /\ Free(r)
    /\ posts < MaxPosts
    /\ posts' = posts + 1
    /\ Goto(r, "p_open", [NoLocals EXCEPT !.op = "post", !.body = body])
    /\ UNCHANGED <<live, archives, clock, inner_state, runs, tasks, task_history, auto>>

PostOpen(r) ==
    /\ pc[r] = "p_open"
    /\ live' = File(<<>>)
    /\ runs' = 0
    /\ Goto(r, "p_write", loc[r])
    /\ UNCHANGED <<archives, clock, inner_state, posts, tasks, task_history, auto>>

PostWrite(r) ==
    /\ pc[r] = "p_write"
    /\ live' = File(loc[r].body)
    /\ Goto(r, "respond", loc[r])
    /\ UNCHANGED <<archives, clock, inner_state, posts, runs, tasks, task_history, auto>>

(***************************************************************************)
(* GET /api/context: get_optimized_context (lines 807-898).                *)
(***************************************************************************)
ReqContext(r, query, budget_tokens) ==
    /\ CanDispatch
    /\ Free(r)
    /\ Goto(r, "g_exists", [NoLocals EXCEPT !.op = "context", !.query = query,
                                            !.budget_tokens = budget_tokens])
    /\ UNCHANGED <<live, archives, clock, inner_state, posts, runs, tasks, task_history, auto>>

\* lines 825-831
ContextExists(r) ==
    /\ pc[r] = "g_exists"
    /\ IF live.exists
       THEN Goto(r, "g_read", loc[r])
       ELSE Goto(r, "respond",
                 [loc[r] EXCEPT !.result = EmptyResult(EffectiveBudget(loc[r].budget_tokens))])
    /\ UNCHANGED <<live, archives, clock, inner_state, posts, runs, tasks, task_history, auto>>

\* lines 833-898
ContextRead(r) ==
    /\ pc[r] = "g_read"
    /\ LET budget == EffectiveBudget(loc[r].budget_tokens)
           content == live.data
           sections == parse_memory_sections(content)
           scored == SortByScore(ScoreAll(sections, QueryWords(loc[r].query),
                                          IsoNow(clock), DateStr(clock)))
           packed == Pack(scored, budget)
           included == Reorder(packed.included, sections)
       IN  IF sections = <<>>
           THEN Goto(r, "respond", [loc[r] EXCEPT !.content = content,
                                                  !.result = EmptyResult(budget)])
           ELSE Goto(r, "respond",
                     [loc[r] EXCEPT !.content = content, !.sections = sections,
                                    !.scored = scored, !.included = included,
                                    !.result = BuildResult(sections, included, packed.total_tokens,
                                                           budget, get_inner_context(inner_state))])
    /\ UNCHANGED <<live, archives, clock, inner_state, posts, runs, tasks, task_history, auto>>

(***************************************************************************)
(* The handler returns: the response is sent, or the exception of a failed *)
(* call ends the request.                                                  *)
(***************************************************************************)
Respond(r) ==
    /\ pc[r] \in {"respond", "failed"}
    /\ Goto(r, "idle", NoLocals)
    /\ UNCHANGED <<live, archives, clock, inner_state, posts, runs, tasks, task_history, auto>>

\* midnight UTC
Tick ==
    /\ clock < NDates
    /\ clock' = clock + 1
    /\ UNCHANGED <<live, archives, inner_state, pc, loc, posts, runs, tasks, task_history, auto>>

Next ==
    \/ \E r \in Reqs : ReqCompress(r)
    \/ \E r \in Reqs : CompressExists(r)
    \/ \E r \in Reqs : CompressRead(r)
    \/ \E r \in Reqs : CompressAppend(r)
    \/ \E r \in Reqs : CompressAppendFail(r)
    \/ \E r \in Reqs : CompressOpen(r)
    \/ \E r \in Reqs : CompressOpenFail(r)
    \/ \E r \in Reqs : CompressWrite(r)
    \/ \E r \in Reqs : \E k \in {0, Len(loc[r].new_content) \div 2} : CompressWriteFail(r, k)
    \/ \E r \in Reqs : \E body \in PostDocs : ReqPostMemory(r, body)
    \/ \E r \in Reqs : PostOpen(r)
    \/ \E r \in Reqs : PostWrite(r)
    \/ \E r \in Reqs : ReqContext(r, <<>>, 0)
    \/ \E r \in Reqs : ContextExists(r)
    \/ \E r \in Reqs : ContextRead(r)
    \/ \E r \in Reqs : Respond(r)
    \/ Tick

\* the document store under compaction, replacement and reads
Spec == Init /\ [][Next]_vars

NextCtx ==
    \/ \E r \in Reqs : \E query \in Queries : \E budget_tokens \in Budgets :
          ReqContext(r, query, budget_tokens)
    \/ \E r \in Reqs : ContextExists(r)
    \/ \E r \in Reqs : ContextRead(r)
    \/ \E r \in Reqs : Respond(r)

\* the budget packer over its inputs: document, inner state, date, query, budget
SpecCtx == InitCtx /\ [][NextCtx]_vars

(***************************************************************************)
(* Direct calls of the pure functions score_section (lines 643-715) and    *)
(* estimate_tokens (lines 718-720), with arguments drawn from small sets.  *)
(* The reference timestamp is an argument; the wall clock is whatever it   *)
(* is when the call runs.                                                  *)
(***************************************************************************)
Repeat(x, n) == [i \in 1..n |-> x]

\* "Identity"; "My Preferences"; "Active Task (a)"; "Sprint planned"; "Projects"; "Research"; "Ideas 2026-01-02"; "Notes"; "Projects research"; "Planned projects"
ScoreHeaders ==
    << <<"I","d","e","n","t","i","t","y">>,
       <<"M","y"," ","P","r","e","f","e","r","e","n","c","e","s">>,
       <<"A","c","t","i","v","e"," ","T","a","s","k"," ","(","a",")">>,
       <<"S","p","r","i","n","t"," ","p","l","a","n","n","e","d">>,
       <<"P","r","o","j","e","c","t","s">>,
       <<"R","e","s","e","a","r","c","h">>,
       <<"I","d","e","a","s"," ","2","0","2","6","-","0","1","-","0","2">>,
       <<"N","o","t","e","s">>,
       <<"P","r","o","j","e","c","t","s"," ","r","e","s","e","a","r","c","h">>,
       <<"P","l","a","n","n","e","d"," ","p","r","o","j","e","c","t","s">> >>

\* ""; "**Status:** IN PROGRESS"; "**Status:** TODO, in progress"; "**Status:** DONE 2026-01-01"; "**Status:** CANCELLED\n2026-01-01 2026-01-02"; "**Status:** PLANNED"; "2026-13-99"
ScoreBodies ==
    << <<>>,
       <<"*","*","S","t","a","t","u","s",":","*","*"," ","I","N"," ","P","R","O","G","R","E","S","S">>,
       <<"*","*","S","t","a","t","u","s",":","*","*"," ","T","O","D","O",","," ","i","n"," ","p","r","o","g","r","e","s","s">>,
       <<"*","*","S","t","a","t","u","s",":","*","*"," ","D","O","N","E"," ","2","0","2","6","-","0","1","-","0","1">>,
       <<"*","*","S","t","a","t","u","s",":","*","*"," ","C","A","N","C","E","L","L","E","D","\n","2","0","2","6","-","0","1","-","0","1"," ","2","0","2","6","-","0","1","-","0","2">>,
       <<"*","*","S","t","a","t","u","s",":","*","*"," ","P","L","A","N","N","E","D">>,
       <<"2","0","2","6","-","1","3","-","9","9">> >>

\* 200 characters followed by a date; 2001 characters
LongBodies == {Repeat("y", DATE_WINDOW) \o DateStr(2), Repeat("y", BODY_PENALTY_LEN + 1)}

ScoreSections ==
    {[header |-> ScoreHeaders[h], body |-> ScoreBodies[b]] :
        h \in DOMAIN ScoreHeaders, b \in DOMAIN ScoreBodies}
        \cup {[header |-> ScoreHeaders[h], body |-> b] : h \in {1, 8}, b \in LongBodies}

\* "progress", "zzz"
ScoreTerms == {<<"p","r","o","g","r","e","s","s">>, <<"z","z","z">>}

\* "progress" not at all, once, twice and as often as a list allows, and
\* the lists of three with a repetition
TermLists ==
    {Repeat(<<"p","r","o","g","r","e","s","s">>, n) : n \in {0, 1, 2, MaxTerms}}
        \cup {<<t, u, t>> : t \in ScoreTerms, u \in ScoreTerms}

EstimateTexts == {Repeat("x", n) : n \in 0..MaxLen} \cup {Repeat(NL, n) : n \in 0..MaxLen}

\* score_section(section, query_words, now_str), run on the date the clock shows
CallScore(r, section, query_words, d) ==
    /\ CanDispatch
    /\ Free(r)
    /\ Goto(r, "respond",
            [NoLocals EXCEPT !.op = "score", !.section = section, !.query_words = query_words,
                             !.now_str = IsoNow(d), !.wall = clock,
                             !.score = score_section(section, query_words, IsoNow(d), DateStr(clock))])
    /\ UNCHANGED <<live, archives, clock, inner_state, posts, runs, tasks, task_history, auto>>

\* estimate_tokens(text)
CallEstimate(r, text) ==
    /\ CanDispatch
    /\ Free(r)
    /\ Goto(r, "respond", [NoLocals EXCEPT !.op = "estimate", !.text = text,
                                           !.tokens = estimate_tokens(text)])
    /\ UNCHANGED <<live, archives, clock, inner_state, posts, runs, tasks, task_history, auto>>

\* text before any heading; a heading with a trailing space over a deeper
\* heading and a blank line; a body padded with blank lines and spaces; "##"
\* with no space after it; a heading marker with no line end; an indented marker
ParseBlocks ==
    << <<"p","r","e","\n">>,
       <<"#","#"," ","A"," ","\n","#","#","#"," ","x","\n"," ","\n">>,
       <<"#","#"," ","b","\n","\n"," ","k"," ","\n">>,
       <<"#","#","c","\n">>,
       <<"#","#"," ">>,
       <<" ","#","#"," ","d","\n">> >>
ParseDocs == Docs(ParseBlocks, MaxParseBlocks)

\* parse_memory_sections(content)
CallParse(r, content) ==
    /\ CanDispatch
    /\ Free(r)
    /\ Goto(r, "respond", [NoLocals EXCEPT !.op = "parse", !.content = content,
                                           !.sections = parse_memory_sections(content)])
    /\ UNCHANGED <<live, archives, clock, inner_state, posts, runs, tasks, task_history, auto>>

InitScore ==
    /\ live = NoFile
    /\ archives = [d \in Dates |-> NoFile]
    /\ clock = 1
    /\ inner_state = DefaultInnerState
    /\ pc = [r \in Reqs |-> "idle"]
    /\ loc = [r \in Reqs |-> NoLocals]
    /\ posts = 0
    /\ runs = 0
    /\ tasks = NoTasks
    /\ task_history = <<>>
    /\ auto = Asleep

NextScore ==
    \/ \E r \in Reqs : \E section \in ScoreSections : \E query_words \in TermLists : \E d \in Dates :
          CallScore(r, section, query_words, d)
    \/ \E r \in Reqs : \E text \in EstimateTexts : CallEstimate(r, text)
    \/ \E r \in Reqs : \E content \in ParseDocs : CallParse(r, content)
    \/ \E r \in Reqs : Respond(r)
    \/ Tick

\* the scorer, the token estimator and the section parser over their arguments
SpecScore == InitScore /\ [][NextScore]_vars

(***************************************************************************)
(* The tasks table and the auto-retry system: retry_task (lines 260-278),  *)
(* auto_retry_failed_tasks (lines 340-358) and the thread started by       *)
(* start_auto_retry_thread (lines 360-374).  Every call opens its own      *)
(* connection (get_db); a SELECT reads the committed table, and the UPDATE *)
(* and INSERT of lines 272-275 take effect together at the commit.         *)
(***************************************************************************)
TaskIds == 1..NTasks

\* the ids a request can name: the rows of the table and one it does not hold
RequestIds == 1..(NTasks + 1)

\* conn.execute("SELECT * FROM tasks WHERE id=?", (task_id,)).fetchone()
SelectTask(task_id) == IF task_id \in DOMAIN tasks THEN tasks[task_id] ELSE NoTask

\* SELECT * FROM tasks WHERE status='failed' AND retry_count < max_retries
RECURSIVE SelectFailedFrom(_)
SelectFailedFrom(id) ==
    IF id > NTasks THEN <<>>
    ELSE (IF /\ id \in DOMAIN tasks
             /\ tasks[id].status = "failed"
             /\ tasks[id].retry_count < tasks[id].max_retries
          THEN <<id>> ELSE <<>>) \o SelectFailedFrom(id + 1)
SelectFailed == SelectFailedFrom(1)

\* the loop of auto_retry_failed_tasks: the next task of the list, or the return
NextFailed(l) ==
    IF l.failed = <<>> THEN [pc |-> "return", loc |-> l]
    ELSE [pc |-> "t_select", loc |-> [l EXCEPT !.task_id = Head(l.failed), !.failed = Tail(l.failed)]]

\* retry_task returns result to its caller: the handler of
\* POST /api/tasks/<id>/retry, or the loop of auto_retry_failed_tasks, which
\* lists the task when the result is a row
Returned(l, result) ==
    IF l.op = "retry" THEN [pc |-> "return", loc |-> [l EXCEPT !.result_task = result]]
    ELSE NextFailed([l EXCEPT !.result_task = result,
                              !.retried = IF result.status \in {"none", "error"} THEN @
                                          ELSE Append(@, [id |-> l.task_id,
                                                          retry_count |-> result.retry_count])])

\* retry_task up to its check (lines 261-270)
RetryCheck(l) ==
    LET task == SelectTask(l.task_id)
    IN  IF task.status = "none" THEN Returned(l, NoTask)
        ELSE IF task.retry_count >= task.max_retries
        THEN Returned(l, [status |-> "error", retry_count |-> task.retry_count,
                          max_retries |-> task.max_retries])
        ELSE [pc |-> "t_update", loc |-> [l EXCEPT !.task = task]]

\* UPDATE tasks SET status='todo', retry_count=retry_count+1 ... WHERE id=?
RetriedTasks(l) ==
    IF l.task_id \in DOMAIN tasks
    THEN [tasks EXCEPT ![l.task_id] = [@ EXCEPT !.status = "todo", !.retry_count = @ + 1]]
    ELSE tasks

\* INSERT INTO task_history ... 'retry', str(task["retry_count"]), str(task["retry_count"] + 1)
RetriedHistory(l) ==
    Append(task_history, [task_id |-> l.task_id, old_value |-> l.task.retry_count,
                          new_value |-> l.task.retry_count + 1])

\* the handler answers when its call returns
HandlerPc(f) == IF f.pc = "return" THEN "respond" ELSE f.pc

\* the thread goes back to sleep when its call returns
ThreadFrame(f) == IF f.pc = "return" THEN Asleep ELSE f

\* POST /api/tasks/<id>/retry
ReqRetry(r, task_id) ==
    /\ CanDispatch
    /\ Free(r)
    /\ Goto(r, "t_select", [NoLocals EXCEPT !.op = "retry", !.task_id = task_id])
    /\ UNCHANGED <<live, archives, clock, inner_state, posts, runs, tasks, task_history, auto>>

\* POST /api/retry/run
ReqRetryRun(r) ==
    /\ CanDispatch
    /\ Free(r)
    /\ Goto(r, "a_select", [NoLocals EXCEPT !.op = "retry_run"])
    /\ UNCHANGED <<live, archives, clock, inner_state, posts, runs, tasks, task_history, auto>>

\* PUT /api/tasks/<id> with status 'failed': update_task on a task that was
\* taken up again
ReqFail(r, task_id) ==
    /\ CanDispatch
    /\ Free(r)
    /\ tasks[task_id].status = "todo"
    /\ tasks' = [tasks EXCEPT ![task_id].status = "failed"]
    /\ Goto(r, "respond", [NoLocals EXCEPT !.op = "update", !.task_id = task_id])
    /\ UNCHANGED <<live, archives, clock, inner_state, posts, runs, task_history, auto>>

\* auto_retry_failed_tasks in the handler, lines 343-351
HandlerSelectFailed(r) ==
    /\ pc[r] = "a_select"
    /\ LET f == NextFailed([loc[r] EXCEPT !.failed = SelectFailed])
       IN  Goto(r, HandlerPc(f), f.loc)
    /\ UNCHANGED <<live, archives, clock, inner_state, posts, runs, tasks, task_history, auto>>

\* retry_task in the handler, lines 261-270
HandlerRetryCheck(r) ==
    /\ pc[r] = "t_select"
    /\ LET f == RetryCheck(loc[r])
       IN  Goto(r, HandlerPc(f), f.loc)
    /\ UNCHANGED <<live, archives, clock, inner_state, posts, runs, tasks, task_history, auto>>

\* lines 272-275
HandlerRetryUpdate(r) ==
    /\ pc[r] = "t_update"
    /\ tasks' = RetriedTasks(loc[r])
    /\ task_history' = RetriedHistory(loc[r])
    /\ Goto(r, "t_result", loc[r])
    /\ UNCHANGED <<live, archives, clock, inner_state, posts, runs, auto>>

\* lines 276-278
HandlerRetryResult(r) ==
    /\ pc[r] = "t_result"
    /\ LET f == Returned(loc[r], SelectTask(loc[r].task_id))
       IN  Goto(r, HandlerPc(f), f.loc)
    /\ UNCHANGED <<live, archives, clock, inner_state, posts, runs, tasks, task_history, auto>>

\* time.sleep(AUTO_RETRY_INTERVAL) is over (line 364)
AutoWake ==
    /\ auto.pc = "sleep"
    /\ auto' = [pc |-> "a_select", loc |-> [NoLocals EXCEPT !.op = "auto"]]
    /\ UNCHANGED <<live, archives, clock, inner_state, pc, loc, posts, runs, tasks, task_history>>

\* auto_retry_failed_tasks in the thread, lines 343-351
AutoSelectFailed ==
    /\ auto.pc = "a_select"
    /\ auto' = ThreadFrame(NextFailed([auto.loc EXCEPT !.failed = SelectFailed]))
    /\ UNCHANGED <<live, archives, clock, inner_state, pc, loc, posts, runs, tasks, task_history>>

\* retry_task in the thread, lines 261-270
AutoRetryCheck ==
    /\ auto.pc = "t_select"
    /\ auto' = ThreadFrame(RetryCheck(auto.loc))
    /\ UNCHANGED <<live, archives, clock, inner_state, pc, loc, posts, runs, tasks, task_history>>

\* lines 272-275
AutoRetryUpdate ==
    /\ auto.pc = "t_update"
    /\ tasks' = RetriedTasks(auto.loc)
    /\ task_history' = RetriedHistory(auto.loc)
    /\ auto' = [auto EXCEPT !.pc = "t_result"]
    /\ UNCHANGED <<live, archives, clock, inner_state, pc, loc, posts, runs>>

\* lines 276-278
AutoRetryResult ==
    /\ auto.pc = "t_result"
    /\ auto' = ThreadFrame(Returned(auto.loc, SelectTask(auto.loc.task_id)))
    /\ UNCHANGED <<live, archives, clock, inner_state, pc, loc, posts, runs, tasks, task_history>>

\* tasks that were created and have failed or are in work, not yet retried
InitRetry ==
    /\ live = NoFile
    /\ archives = [d \in Dates |-> NoFile]
    /\ clock = 1
    /\ inner_state = DefaultInnerState
    /\ pc = [r \in Reqs |-> "idle"]
    /\ loc = [r \in Reqs |-> NoLocals]
    /\ posts = 0
    /\ runs = 0
    /\ tasks \in [TaskIds -> {[status |-> st, retry_count |-> 0, max_retries |-> mx] :
                                  st \in {"failed", "todo"}, mx \in 0..MaxRetries}]
    /\ task_history = <<>>
    /\ auto = Asleep

NextRetry ==
    \/ \E r \in Reqs : \E task_id \in RequestIds : ReqRetry(r, task_id)
    \/ \E r \in Reqs : ReqRetryRun(r)
    \/ \E r \in Reqs : \E task_id \in TaskIds : ReqFail(r, task_id)
    \/ \E r \in Reqs : HandlerSelectFailed(r)
    \/ \E r \in Reqs : HandlerRetryCheck(r)
    \/ \E r \in Reqs : HandlerRetryUpdate(r)
    \/ \E r \in Reqs : HandlerRetryResult(r)
    \/ \E r \in Reqs : Respond(r)
    \/ AutoWake
    \/ AutoSelectFailed
    \/ AutoRetryCheck
    \/ AutoRetryUpdate
    \/ AutoRetryResult

\* the handler and the auto-retry thread over the tasks table
SpecRetry == InitRetry /\ [][NextRetry]_vars

(***************************************************************************)
(* Properties.                                                             *)
(***************************************************************************)
\* a get_optimized_context call whose response is ready
CtxDone(r) == pc[r] = "respond" /\ loc[r].op = "context"

\* a compress_memory call whose response is ready
CompressDone(r) == pc[r] = "respond" /\ loc[r].op = "compress"

IsIdentity(s) == Contains(lower(s.header), kw_identity)

\* sections_included of the same call made with budget parameter b
IncludedAt(r, b) == Len(Pack(loc[r].scored, EffectiveBudget(b)).included)

\* with budget parameter b the packer skips no section before one it includes:
\* its selection is the top of the ranking
PrefixSelected(r, b) ==
    LET inc == Pack(loc[r].scored, EffectiveBudget(b)).included
    IN  inc = SubSeq(loc[r].scored, 1, Len(inc))

RECURSIVE IsSubseqFrom(_, _, _, _)
IsSubseqFrom(a, i, b, j) == IF i > Len(a) THEN TRUE
                            ELSE IF j > Len(b) THEN FALSE
                            ELSE IF a[i] = b[j] THEN IsSubseqFrom(a, i + 1, b, j + 1)
                            ELSE IsSubseqFrom(a, i, b, j + 1)
\* a can be had from b by dropping elements
IsSubseq(a, b) == IsSubseqFrom(a, 1, b, 1)

lit_active_task_open == <<"A","c","t","i","v","e"," ","T","a","s","k"," ","(">>
lit_status_done == <<"*","*","S","t","a","t","u","s",":","*","*"," ","D","O","N","E">>
lit_status_cancelled == <<"*","*","S","t","a","t","u","s",":","*","*"," ","C","A","N","C","E","L","L","E","D">>

\* an archivable section as the specification defines it: an "Active Task (...)"
\* header and a first body line that is exactly a DONE or CANCELLED status
Archivable(s) == /\ startswith(s.header, lit_active_task_open)
                 /\ split_lines(s.body)[1] \in {lit_status_done, lit_status_cancelled}
NotArchivable(s) == ~Archivable(s)

(* C1: every result of get_optimized_context satisfies sections_included +
   sections_pruned = sections_total, and includes at least one section when
   the document parses into at least one section. *)
C1_CountsAddUp ==
    \A r \in Reqs : CtxDone(r) =>
        LET res == loc[r].result
        IN  /\ res.sections_included + res.sections_pruned = res.sections_total
            /\ res.sections_included = Len(res.sections)
            /\ (live.exists /\ parse_memory_sections(live.data) # <<>>) => res.sections_included >= 1

\* a result whose only section is over the budget on its own, the rest pruned
C1_Witness ==
    \E r \in Reqs : /\ CtxDone(r)
                    /\ loc[r].result.sections_included = 1
                    /\ loc[r].result.sections_pruned >= 1
                    /\ loc[r].result.sections[1].tokens > loc[r].result.budget_tokens

(* C2: every section whose header contains "identity" is among the sections
   get_optimized_context includes, whatever the budget and however many
   always-include sections the document holds. *)
C2_IdentityAlwaysIncluded ==
    \A r \in Reqs : (CtxDone(r) /\ live.exists) =>
        Len(SelectSeq(loc[r].result.sections, IsIdentity))
            = Len(SelectSeq(parse_memory_sections(live.data), IsIdentity))

(* C3, as claimed: with document, query, inner state and reference time
   fixed, a budget b2 >= b1 never gives fewer included sections than b1. *)
C3_BudgetMonotone ==
    \A r \in Reqs : CtxDone(r) =>
        \A b2 \in Budgets :
            loc[r].budget_tokens <= b2 => loc[r].result.sections_included <= IncludedAt(r, b2)

(* C3, amended: for positive budgets b1 <= b2, when the selection at b1 is
   the top of the ranking (no section is skipped before an included one), b2
   gives at least as many included sections as b1. *)
C3_MonotoneOnPrefix ==
    \A r \in Reqs :
        (CtxDone(r) /\ loc[r].budget_tokens >= 1 /\ PrefixSelected(r, loc[r].budget_tokens)) =>
            \A b2 \in Budgets :
                loc[r].budget_tokens <= b2 => loc[r].result.sections_included <= IncludedAt(r, b2)

\* a prefix selection that prunes something, and a larger budget that includes more
C3_Witness ==
    \E r \in Reqs : /\ CtxDone(r)
                    /\ loc[r].budget_tokens >= 1
                    /\ PrefixSelected(r, loc[r].budget_tokens)
                    /\ loc[r].result.sections_pruned >= 1
                    /\ \E b2 \in Budgets : /\ loc[r].budget_tokens < b2
                                           /\ loc[r].result.sections_included < IncludedAt(r, b2)

(* C4: the included sections, in the assembled context and in the returned
   list, stand in the order they have in the source document, also when
   headers repeat. *)
C4_DocumentOrder ==
    \A r \in Reqs : CtxDone(r) =>
        /\ IsSubseq([i \in 1..Len(loc[r].included) |->
                        [header |-> loc[r].included[i].header, body |-> loc[r].included[i].body]],
                    loc[r].sections)
        /\ [i \in 1..Len(loc[r].included) |-> loc[r].included[i].header]
               = [i \in 1..Len(loc[r].result.sections) |-> loc[r].result.sections[i].header]

(* C5: compress_memory removes the archivable sections and nothing else: the
   sections of the rewritten document are the sections of the old one that
   are not archivable, header and body unchanged and in the old order, and
   archived is the number of archivable sections. *)
C5_OnlyArchivableRemoved ==
    \A r \in Reqs : (CompressDone(r) /\ live.exists) =>
        LET before == parse_memory_sections(loc[r].content)
            kept == SelectSeq(before, NotArchivable)
        IN  /\ parse_memory_sections(live.data) = kept
            /\ loc[r].archived = Len(before) - Len(kept)

(* C6: a compress_memory call that follows a completed one, with no change
   to MEMORY.md in between, reports archived = 0, leaves the document as it
   is and appends nothing to the archive. *)
C6_SecondRunIdle ==
    \A r \in Reqs : (CompressDone(r) /\ runs >= 2) =>
        /\ loc[r].archived = 0
        /\ loc[r].matches = <<>>
        /\ live.exists => live.data = loc[r].content

(* C7: when the inner-state text is non-empty the returned context starts
   with the Inner State block, for a missing document and a document without
   sections too; the context is non-empty iff a section is included or an
   inner-state text was supplied. *)
C7_InnerStateInjected ==
    \A r \in Reqs : CtxDone(r) =>
        LET inner_context == get_inner_context(inner_state)
            res == loc[r].result
        IN  /\ inner_context # <<>> => startswith(res.context, inner_title \o inner_context)
            /\ res.context # <<>> <=> (res.sections_included > 0 \/ inner_context # <<>>)

(* C8: from the moment compress_memory has read the document to the end of
   the call, failed or not, MEMORY.md holds the complete old document or the
   complete new one. *)
C8_AtomicRewrite ==
    \A r \in Reqs :
        (/\ loc[r].op = "compress"
         /\ pc[r] \in {"c_open", "c_write", "respond", "failed"}
         /\ loc[r].matches # <<>>)
        => live \in {File(loc[r].content), File(loc[r].new_content)}

(* C9: access to MEMORY.md is mutually exclusive: between the read of a
   compress_memory call and its write-back the document is the one it read,
   no other call is reading, replacing or rewriting it while a call is
   between its read and the end of its write, and no get_optimized_context
   read meets a write in flight. *)
C9_ExclusiveAccess ==
    /\ \A r \in Reqs :
          (loc[r].op = "compress" /\ pc[r] \in {"c_append", "c_open"}) => live = File(loc[r].content)
    /\ \A r1, r2 \in Reqs :
          (r1 # r2 /\ pc[r1] \in {"c_append", "c_open", "c_write", "p_write"})
              => pc[r2] \notin {"c_read", "c_append", "c_open", "c_write", "p_open", "p_write", "g_read"}

\* a compaction about to write back, after a replacement of the document was served
C9_Witness ==
    \E r \in Reqs : pc[r] = "c_write" /\ loc[r].op = "compress" /\ posts >= 1

(* C10: the archive of a date only grows, and each growth is the spans one
   compress_memory call archived, each trimmed and followed by a blank line,
   after everything earlier calls put there. *)
C10_ArchiveAppendOnly ==
    [][\A d \in Dates :
          \/ archives'[d] = archives[d]
          \/ \E r \in Reqs :
                /\ pc[r] = "c_append"
                /\ loc[r].today = d
                /\ archives'[d].exists
                /\ archives'[d].data
                       = archives[d].data
                         \o ArchivedContent(loc[r].content, FindMatches(loc[r].content, 1))]_vars

\* a call has added its spans behind those of an earlier call of the same date
C10_Witness ==
    \E r \in Reqs : /\ CompressDone(r)
                    /\ loc[r].archived >= 1
                    /\ Len(archives[loc[r].today].data) > Len(loc[r].archived_content)

\* a direct score_section call that has returned
ScoreDone(r) == pc[r] = "respond" /\ loc[r].op = "score"

\* a direct estimate_tokens call that has returned
EstimateDone(r) == pc[r] = "respond" /\ loc[r].op = "estimate"

\* an always-include section to rank the others against
IdentitySection == [header |-> ScoreHeaders[1], body |-> <<>>]

(* C11: no section whose header holds none of "identity", "user",
   "preferences" scores higher than a section whose header holds one of
   them, or stands before it in the ranking the packer walks, whatever the
   query. *)
C11_AlwaysIncludeTopRanked ==
    \A r \in Reqs : (ScoreDone(r) /\ ~IsAlwaysInclude(loc[r].section.header)) =>
        \A ranking \in {SortByScore(<<[header |-> loc[r].section.header, body |-> loc[r].section.body,
                                       score |-> loc[r].score]>>
                                    \o ScoreAll(<<IdentitySection>>, loc[r].query_words,
                                                loc[r].now_str, DateStr(loc[r].wall)))} :
            /\ loc[r].score <= ranking[2].score
            /\ ranking[1].header = IdentitySection.header

\* the entries of a query list, counted with repetition, that occur in the
\* lower-cased text of a section
Overlap(section, query_words) ==
    Cardinality({i \in DOMAIN query_words :
                    Contains(lower(section.header) \o <<" ">> \o lower(section.body), query_words[i])})

(* C12, as claimed: for every section and query list, the score with the
   query minus the score with an empty query is 40 times the number of
   entries of the list that occur in the lower-cased section text. *)
C12_QueryOverlap ==
    \A r \in Reqs : ScoreDone(r) =>
        \A section \in {loc[r].section} : \A query_words \in {loc[r].query_words} :
            loc[r].score - score_section(section, <<>>, loc[r].now_str, DateStr(loc[r].wall))
                = 40 * Overlap(section, query_words)

(* C12, amended: the same for every section whose header holds none of
   "identity", "user", "preferences"; a section whose header holds one of
   them scores 1000 with and without the query. *)
C12_QueryOverlapScored ==
    \A r \in Reqs : ScoreDone(r) =>
        \A section \in {loc[r].section} : \A query_words \in {loc[r].query_words} :
            loc[r].score - score_section(section, <<>>, loc[r].now_str, DateStr(loc[r].wall))
                = IF IsAlwaysInclude(section.header) THEN 0 ELSE 40 * Overlap(section, query_words)

\* a scored section and a list in which a term that occurs is repeated and
\* another does not occur
C12_Witness ==
    \E r \in Reqs : /\ ScoreDone(r)
                    /\ ~IsAlwaysInclude(loc[r].section.header)
                    /\ Len(loc[r].query_words) = 3
                    /\ loc[r].query_words[1] = loc[r].query_words[3]
                    /\ loc[r].query_words[1] # loc[r].query_words[2]
                    /\ Overlap(loc[r].section, loc[r].query_words) = 2
                    /\ loc[r].score >= 80

\* the result that reports nothing parsed, nothing included, nothing pruned
ZeroResult(budget) ==
    [sections |-> <<>>, total_tokens |-> 0, budget_tokens |-> budget,
     sections_included |-> 0, sections_total |-> 0, sections_pruned |-> 0,
     context |-> <<>>]

(* C13: with MEMORY.md absent, get_optimized_context returns the result it
   returns for an empty document (all counts zero) and compress_memory
   reports archived = 0; neither call creates or changes MEMORY.md or an
   archive file, and neither fails. *)
C13_AbsentDocument ==
    [][\A r \in Reqs :
          (pc'[r] # pc[r]) =>
              /\ (pc[r] = "c_exists" /\ ~live.exists) =>
                    /\ pc'[r] = "respond"
                    /\ loc'[r].archived = 0
                    /\ loc'[r].matches = <<>>
                    /\ live' = live
                    /\ archives' = archives
              /\ (pc[r] = "g_exists" /\ ~live.exists) =>
                    /\ pc'[r] = "respond"
                    /\ loc'[r].result = ZeroResult(EffectiveBudget(loc[r].budget_tokens))
                    /\ live' = live
                    /\ archives' = archives
              /\ (pc[r] = "g_read" /\ live.data = <<>>) =>
                    /\ pc'[r] = "respond"
                    /\ loc'[r].result = ZeroResult(EffectiveBudget(loc[r].budget_tokens))]_vars

\* a context call answered while MEMORY.md is absent, after a compaction
\* call ran to its end on the absent document
C13_Witness ==
    \E r \in Reqs : CtxDone(r) /\ ~live.exists /\ runs >= 1

(* C14: when the document compress_memory reads holds no archivable section,
   the call reports archived = 0, leaves MEMORY.md as it is (not even with
   its newlines collapsed) and appends nothing to an archive. *)
C14_NothingToArchive ==
    \A r \in Reqs :
        (/\ CompressDone(r)
         /\ live.exists
         /\ SelectSeq(parse_memory_sections(loc[r].content), Archivable) = <<>>)
        => /\ loc[r].archived = 0
           /\ loc[r].matches = <<>>
           /\ live.data = loc[r].content

(* C15: estimate_tokens(text) is floor(length(text) / 4), the length counted
   in characters; it is 0 for the empty text, and adding a character never
   lowers it. *)
C15_EstimateTokens ==
    \A r \in Reqs : EstimateDone(r) =>
        /\ 4 * loc[r].tokens <= Len(loc[r].text)
        /\ Len(loc[r].text) < 4 * loc[r].tokens + 4
        /\ loc[r].text = <<>> => loc[r].tokens = 0
        /\ loc[r].tokens <= estimate_tokens(loc[r].text \o <<"x">>)

\* seven characters, one token
C15_Witness ==
    \E r \in Reqs : EstimateDone(r) /\ Len(loc[r].text) = 7 /\ loc[r].tokens = 1

\* the sum of the token figures the result gives for its sections
RECURSIVE SumTokens(_, _)
SumTokens(secs, i) == IF i > Len(secs) THEN 0 ELSE secs[i].tokens + SumTokens(secs, i + 1)

(* C16: in every result with two or more included sections the tokens of
   the included sections sum to at most budget_tokens; the sum exceeds the
   budget only when one section, the first of the ranking, is included. *)
C16_BudgetBound ==
    \A r \in Reqs : CtxDone(r) =>
        LET res == loc[r].result
            total == SumTokens(res.sections, 1)
        IN  /\ res.sections_included >= 2 => total <= res.budget_tokens
            /\ total > res.budget_tokens => /\ res.sections_included = 1
                                            /\ loc[r].included[1] = loc[r].scored[1]

\* several sections included, one pruned, the budget used up exactly
C16_Witness ==
    \E r \in Reqs : /\ CtxDone(r)
                    /\ loc[r].result.sections_included >= 2
                    /\ loc[r].result.sections_pruned >= 1
                    /\ SumTokens(loc[r].result.sections, 1) = loc[r].result.budget_tokens

\* the tokens of the sections of the ranking at the positions in S
RECURSIVE SumAt(_, _)
SumAt(scored, S) ==
    IF S = {} THEN 0
    ELSE LET i == CHOOSE x \in S : TRUE
         IN  estimate_tokens(SectionText(scored[i])) + SumAt(scored, S \ {i})

\* I holds the first position and every later position whose section fits
\* the budget together with the sections at the positions of I before it
IsGreedy(scored, budget, I) ==
    \A i \in 1..Len(scored) :
        i \in I <=> \/ {j \in I : j < i} = {}
                    \/ SumAt(scored, {j \in I : j < i}) + estimate_tokens(SectionText(scored[i])) <= budget

(* C17: packing walks the whole score-sorted list: a section is included
   iff it is the first considered or it fits the budget together with the
   sections included before it; so every pruned section is one that did
   not fit, and a section that fits is included also after one was
   skipped. *)
C17_GreedyScan ==
    \A r \in Reqs : CtxDone(r) =>
        \E I \in SUBSET (1..Len(loc[r].scored)) :
            /\ IsGreedy(loc[r].scored, loc[r].result.budget_tokens, I)
            /\ loc[r].result.sections_included = Cardinality(I)
            /\ \A i \in 1..Len(loc[r].scored) :
                  Cardinality({k \in 1..Len(loc[r].included) : loc[r].included[k] = loc[r].scored[i]})
                      = Cardinality({j \in I : loc[r].scored[j] = loc[r].scored[i]})

\* a section of the ranking was skipped and one ranked after it included
C17_Witness ==
    \E r \in Reqs :
        /\ CtxDone(r)
        /\ \E i, j \in 1..Len(loc[r].scored) :
              /\ i < j
              /\ \A k \in 1..Len(loc[r].included) : loc[r].included[k] # loc[r].scored[i]
              /\ \E k \in 1..Len(loc[r].included) : loc[r].included[k] = loc[r].scored[j]

(* C18: score_section(section, terms, reference) is a function of its three
   arguments: the score a call returns is the score the same arguments give
   on any other date of the wall clock. *)
C18_SingleReference ==
    \A r \in Reqs : ScoreDone(r) =>
        \A section \in {loc[r].section} : \A d \in Dates :
            loc[r].score = score_section(section, loc[r].query_words, loc[r].now_str, DateStr(d))

\* the rule groups of the reference scorer: rows of alternative terms and the
\* value of the row, in order of precedence
StatusTable ==
    << [terms |-> {kw_in_progress}, delta |-> 200],
       [terms |-> {kw_status_todo, kw_status_planned}, delta |-> 100],
       [terms |-> {kw_status_done}, delta |-> 10],
       [terms |-> {kw_status_cancelled}, delta |-> 5] >>

TypeTable ==
    << [terms |-> {kw_active_task}, delta |-> 20],
       [terms |-> {kw_sprint, kw_planned}, delta |-> 80],
       [terms |-> {kw_projects}, delta |-> 90],
       [terms |-> {kw_research}, delta |-> 30],
       [terms |-> {kw_feature, kw_ideas}, delta |-> 25] >>

\* the value of the first row one of whose terms occurs in the text, 0 when
\* no row applies
FirstRow(table, text) ==
    LET hits == {i \in DOMAIN table : \E t \in table[i].terms : Contains(text, t)}
    IN  IF hits = {} THEN 0 ELSE table[Min(hits)].delta

\* the reference scorer; recency is the value the call under test computes
RefScore(section, query_words, recency) ==
    IF \E t \in {kw_identity, kw_user, kw_preferences} : Contains(lower(section.header), t)
    THEN 1000
    ELSE FirstRow(StatusTable, lower(section.body))
         + (IF Contains(lower(section.header), kw_active_task)
               /\ Contains(lower(section.body), kw_in_progress)
            THEN 300
            ELSE FirstRow(TypeTable, lower(section.header)))
         + recency
         + 40 * Overlap(section, query_words)
         - (IF Len(section.body) > 2000 THEN 10 ELSE 0)

(* C19: score_section equals the reference scorer: 1000 and nothing else for
   a header holding "identity", "user" or "preferences"; otherwise the value
   of the first status rule that applies, plus the value of the first type
   rule that applies, plus recency, plus 40 for each matching query entry,
   minus 10 for a body of more than 2000 characters; the status group and
   the type group apply independently of each other. *)
C19_ReferenceScorer ==
    \A r \in Reqs : ScoreDone(r) =>
        \A section \in {loc[r].section} : \A query_words \in {loc[r].query_words} :
            loc[r].score = RefScore(section, query_words,
                                    RecencyScore(section, loc[r].now_str, DateStr(loc[r].wall)))

\* a section to which a status rule and a type rule both apply
C19_Witness ==
    \E r \in Reqs : /\ ScoreDone(r)
                    /\ ~IsAlwaysInclude(loc[r].section.header)
                    /\ FirstRow(StatusTable, lower(loc[r].section.body)) = 10
                    /\ FirstRow(TypeTable, lower(loc[r].section.header)) = 20
                    /\ loc[r].query_words = <<>>
                    /\ loc[r].score >= 30

\* recency against the reference date alone: the greatest date of the header
\* and the first 200 characters of the body gives 50 when it is the
\* reference date, 30 when it is later, 0 when it is earlier or there is none
RefRecency(section, now_str) ==
    LET dates == FindDates(lower(section.header) \o <<" ">> \o SubSeq(section.body, 1, Min({200, Len(section.body)})), 1)
        ref == SubSeq(now_str, 1, 10)
    IN  IF dates = <<>> THEN 0
        ELSE IF MaxStr(dates) = ref THEN 50
        ELSE IF StrLess(ref, MaxStr(dates)) THEN 30
        ELSE 0

(* C20: for a section that is not always-include, the recency part of the
   score is 50 iff the greatest YYYY-MM-DD of the header and the first 200
   body characters is the reference date, 30 iff it is later than the
   reference date, and 0 when it is earlier or no date is found. *)
C20_Recency ==
    \A r \in Reqs : (ScoreDone(r) /\ ~IsAlwaysInclude(loc[r].section.header)) =>
        \A section \in {loc[r].section} : \A query_words \in {loc[r].query_words} :
            loc[r].score - RefScore(section, query_words, 0) = RefRecency(section, loc[r].now_str)
\* the header and body of the entries of a ranking, in its order
Unscored(scored) == [i \in 1..Len(scored) |-> [header |-> scored[i].header, body |-> scored[i].body]]

\* the entries of a sequence that satisfy Keep(_), in its order
RECURSIVE Filter(_, _, _)
Filter(seq, Keep(_), i) ==
    IF i > Len(seq) THEN <<>>
    ELSE (IF Keep(seq[i]) THEN <<seq[i]>> ELSE <<>>) \o Filter(seq, Keep, i + 1)

(* C21: the ranking the packer walks is in descending score order, and the
   sections of one score stand in it in their document order; so of two
   sections of equal score that do not fit together the earlier of the
   document is the one considered first, and included. *)
C21_StableTies ==
    \A r \in Reqs : CtxDone(r) =>
        \A scored \in {loc[r].scored} : \A sections \in {loc[r].sections} :
            /\ \A i \in 1..(Len(scored) - 1) : scored[i].score >= scored[i + 1].score
            /\ \A v \in {scored[i].score : i \in 1..Len(scored)} :
                  LET class == {[header |-> scored[i].header, body |-> scored[i].body] :
                                    i \in {k \in 1..Len(scored) : scored[k].score = v}}
                      SameScore(e) == e.score = v
                      InClass(s) == s \in class
                  IN  Unscored(Filter(scored, SameScore, 1)) = Filter(sections, InClass, 1)
            /\ (Len(scored) >= 2 /\ scored[1].score = scored[2].score /\ Len(loc[r].included) = 1)
                  => loc[r].included[1].header = scored[1].header

\* two different sections tie for the top score, the budget holds one of
\* them, and the one included is the first of the document
C21_Witness ==
    \E r \in Reqs :
        /\ CtxDone(r)
        /\ Len(loc[r].scored) = 2
        /\ loc[r].scored[1].score = loc[r].scored[2].score
        /\ loc[r].scored[1].header # loc[r].scored[2].header
        /\ loc[r].result.sections_included = 1
        /\ loc[r].included[1].header = loc[r].sections[1].header

\* a parse_memory_sections call that has returned
ParseDone(r) == pc[r] = "respond" /\ loc[r].op = "parse"

\* the lines of a document that begin with "## "
MarkerLines(lines) ==
    {i \in 1..Len(lines) : Len(lines[i]) >= 3 /\ SubSeq(lines[i], 1, 3) = <<"#", "#", " ">>}

(* C22: parse_memory_sections returns one section for each line that begins
   with "## ", in document order: the header of the i-th is the rest of the
   i-th such line, trimmed, and its body the lines between that line and the
   next such line or the end of the input, joined and trimmed.  Text before
   the first such line is in no section, a line "### x" starts none, and the
   empty document has none. *)
C22_ParserSections ==
    \A r \in Reqs : ParseDone(r) =>
        \A lines \in {split_lines(loc[r].content)} : \A sections \in {loc[r].sections} :
            LET marks == MarkerLines(lines)
                Nth(k) == CHOOSE i \in marks : Cardinality({j \in marks : j < i}) = k - 1
                Stop(k) == IF k = Cardinality(marks) THEN Len(lines) + 1 ELSE Nth(k + 1)
            IN  /\ Len(sections) = Cardinality(marks)
                /\ \A k \in 1..Len(sections) :
                      /\ sections[k].header = strip(SubSeq(lines[Nth(k)], 4, Len(lines[Nth(k)])))
                      /\ sections[k].body = strip(join(SubSeq(lines, Nth(k) + 1, Stop(k) - 1), <<NL>>))
                /\ loc[r].content = <<>> => sections = <<>>

\* a document with text before its first heading and two sections, the first
\* with a padded heading and a deeper heading in its body, the second with a
\* body padded by blank lines
C22_Witness ==
    \E r \in Reqs :
        /\ ParseDone(r)
        /\ loc[r].content = ParseBlocks[1] \o ParseBlocks[2] \o ParseBlocks[3]
        /\ loc[r].sections = << [header |-> <<"A">>, body |-> <<"#", "#", "#", " ", "x">>],
                                [header |-> <<"b">>, body |-> <<"k">>] >>

\* a compress_memory call that has searched the document it read
Searched(r) == loc[r].op = "compress" /\ pc[r] \in {"c_append", "respond"}

(* C23: the spans compress_memory archives are the archivable sections of
   the Section Parser: each span starts at the start of a line, is one
   section as parse_memory_sections delimits it, and that section is
   archivable; and the spans, in order, are the archivable sections of the
   document, none left out. *)
C23_SpansAreSections ==
    \A r \in Reqs : Searched(r) =>
        \A content \in {loc[r].content} : \A matches \in {loc[r].matches} :
            LET spans == [i \in 1..Len(matches) |-> parse_memory_sections(Group(content, matches[i]))]
            IN  /\ \A i \in 1..Len(matches) :
                      /\ matches[i].start = 1 \/ content[matches[i].start - 1] = NL
                      /\ Len(spans[i]) = 1
                      /\ Archivable(spans[i][1])
                /\ Concat(spans) = SelectSeq(parse_memory_sections(content), Archivable)

(* C24, as stated: total_tokens is the sum of the tokens fields of the
   returned sections plus, when the inner-state text is non-empty, the
   estimated token count of that text, and nothing else. *)
C24_TokenAccountingStated ==
    \A r \in Reqs : CtxDone(r) =>
        LET inner_context == get_inner_context(inner_state)
            res == loc[r].result
        IN  res.total_tokens = SumTokens(res.sections, 1)
                                 + (IF inner_context # <<>> THEN estimate_tokens(inner_context) ELSE 0)

(* C24, amended: when the Inner State block is in the context (the text is
   non-empty and the document has a section) total_tokens is the sum of the
   tokens fields plus the estimate of the inner-state text plus 10 for the
   block's heading; otherwise it is the sum of the tokens fields, which is 0
   for a missing document and a document without sections.  The sections
   are selected against budget_tokens alone: neither the inner-state tokens
   nor the 10 are counted against it. *)
C24_TokenAccounting ==
    \A r \in Reqs : CtxDone(r) =>
        LET inner_context == get_inner_context(inner_state)
            res == loc[r].result
            injected == inner_context # <<>> /\ res.sections_total > 0
        IN  /\ res.total_tokens = SumTokens(res.sections, 1)
                                    + (IF injected THEN estimate_tokens(inner_context) + INNER_OVERHEAD ELSE 0)
            /\ injected <=> startswith(res.context, inner_title)
            /\ \E I \in SUBSET (1..Len(loc[r].scored)) :
                  /\ IsGreedy(loc[r].scored, res.budget_tokens, I)
                  /\ res.sections_included = Cardinality(I)
                  /\ SumTokens(res.sections, 1) = SumAt(loc[r].scored, I)

\* the included sections use the budget up to the last token with a section
\* pruned, and the total reported, with the inner state, lies above the budget
C24_Witness ==
    \E r \in Reqs : /\ CtxDone(r)
                    /\ loc[r].result.sections_pruned >= 1
                    /\ SumTokens(loc[r].result.sections, 1) = loc[r].result.budget_tokens
                    /\ loc[r].result.total_tokens
                          = loc[r].result.budget_tokens + estimate_tokens(get_inner_context(inner_state)) + INNER_OVERHEAD
                    /\ loc[r].result.total_tokens > loc[r].result.budget_tokens

\* the spans of a call, trimmed as they are archived
Span(r, i) == strip(Group(loc[r].content, loc[r].matches[i]))

\* the text t ends with the text u
EndsWith(t, u) == Len(t) >= Len(u) /\ SubSeq(t, Len(t) - Len(u) + 1, Len(t)) = u

\* the number of places of the text t where the text u stands
Occurrences(t, u) == Cardinality({p \in 1..Len(t) : StartsWithAt(t, p, u)})

\* the document without the matched spans: the text before the first span,
\* between each span and the next, and after the last
CutSpans(content, matches) ==
    Concat([i \in 1..(Len(matches) + 1) |->
               SubSeq(content,
                      IF i = 1 THEN 1 ELSE matches[i - 1].end,
                      IF i = Len(matches) + 1 THEN Len(content) ELSE matches[i].start - 1)])

\* a compress_memory call that found spans to archive
Archiving(r) == loc[r].op = "compress" /\ loc[r].matches # <<>>

(* C25, as stated: in every compress_memory call, a failed one too, each
   archived section is in the live document or the archive at every state;
   and once the call completes the section is in the archive exactly once
   and not in the live document. *)
C25_ArchivedExactlyOnce ==
    \A r \in Reqs : Archiving(r) =>
        \A i \in 1..Len(loc[r].matches) : \A span \in {Span(r, i)} :
            /\ Contains(live.data, span) \/ Contains(archives[loc[r].today].data, span)
            /\ pc[r] = "respond" =>
                  /\ Occurrences(archives[loc[r].today].data, span)
                        = Cardinality({j \in 1..Len(loc[r].matches) : Span(r, j) = span})
                  /\ ~Contains(live.data, span)

(* C25, amended: a compress_memory call appends its spans to the archive
   before it touches the live document: while the live document is as it was
   read the spans are in it, and from the first change to it on, and after a
   failure, they are at the end of the archive; so at every state each span
   is in the live document or the archive.  The call appends each span once,
   in one step that leaves the live document alone, and once the call
   completes the live document is the one read with the spans cut out and
   its newline runs collapsed.  The archive may hold a span more than once:
   a call that repeats one that failed after the append archives it again. *)
C25_ArchiveBeforeRemove ==
    /\ [](\A r \in Reqs : Archiving(r) =>
            \A content \in {loc[r].content} : \A archive \in {archives[loc[r].today]} :
                /\ pc[r] = "c_append" => live.data = content
                /\ pc[r] \in {"c_open", "c_write", "respond"} =>
                      archive.exists /\ EndsWith(archive.data, loc[r].archived_content)
                /\ pc[r] = "c_open" => live.data = content
                /\ live.data # content =>
                      archive.exists /\ EndsWith(archive.data, loc[r].archived_content)
                /\ \A i \in 1..Len(loc[r].matches) :
                      \/ Contains(live.data, Span(r, i))
                      \/ Contains(archive.data, Span(r, i))
                /\ pc[r] = "respond" =>
                      live.data = CollapseNewlines(CutSpans(content, loc[r].matches)))
    /\ [][\A d \in Dates : archives'[d] # archives[d] =>
             \E r \in Reqs :
                /\ Archiving(r) /\ pc[r] = "c_append" /\ loc[r].today = d
                /\ live' = live
                /\ archives'[d].data
                     = archives[d].data
                       \o Concat([i \in 1..Len(loc[r].matches) |-> Span(r, i) \o <<NL, NL>>])]_vars

\* a call failed after its append with the live document as it was read, and
\* the call that repeats it has completed: the span is in the archive twice
C25_Witness ==
    \E r \in Reqs :
        /\ Archiving(r)
        /\ pc[r] = "respond"
        /\ archives[loc[r].today].data = loc[r].archived_content \o loc[r].archived_content
        /\ ~Contains(live.data, Span(r, 1))

(* C26: with max_retries unchanged, the retry_count of a task never exceeds
   its max_retries, whatever the interleaving of the retry_task calls of the
   handler and of the auto-retry thread. *)
C26_RetryBound ==
    \A task_id \in DOMAIN tasks : tasks[task_id].retry_count <= tasks[task_id].max_retries

====
